---- MODULE Spec2Model ----
(***************************************************************************)
(* A model of plex-db: the storage engine (path-confined file access with  *)
(* its cache object), and the Collection layer built on it (create, write, *)
(* delete, get, findOne, findAll) for one collection.                      *)
(*                                                                         *)
(* Strings are sequences of tokens (a token is a character, or a name that *)
(* is never split: "data", "id1").  A path is a sequence of segments, each *)
(* a string; its text puts a "/" before every segment.                     *)
(*                                                                         *)
(* A JS value is a record [t, v]: t is its type, v its payload.            *)
(***************************************************************************)
EXTENDS Integers, Sequences, FiniteSets, TLC

\* Bounds of the model.
MaxDocs == 2        \* documents the caller creates (ids handed out)
MaxIdxLen == 2      \* longest id sequence a non-unique index file may reach
MaxQueryKeys == 2   \* fields a query constrains at most
MaxPathLen == 3     \* segments of a logical path handed to the storage engine
NTasks == 2         \* calls of create-then-write that run concurrently
MaxRuntime == 2     \* queryAll's runtime argument, in clock ticks
MaxNow == 3         \* how far the clock runs
MaxFired == 5       \* timer callbacks and close calls in one behaviour
HighWater == 2      \* the cache size at which eviction starts (10000 in the source)
Batch == 1          \* the entries one eviction round deletes (200 in the source)

VARIABLES
    fs,         \* the files under the root: absolute path -> serialized text
    dirs,       \* the directories under the root (absolute paths)
    cache,      \* storage.cache, the Map's entries: logical path -> value
    cacheProps, \* properties set on the Map object by storage.cache[path] = data
    held,       \* the ids of the documents create has returned to the caller
    written,    \* history: id -> the document last passed to write, until deleted
    last,       \* history: the last call, its name, its document, its error
    timers,     \* the intervals that are set: "autosave", "cacheClear"
    fired,      \* history: the timer callbacks and close calls that ran, in order
    tasks,      \* the calls in flight: where each stands, and its locals
    now         \* the clock, in units of the pacing delay

vars == <<fs, dirs, cache, cacheProps, held, written, last, timers, fired, tasks, now>>

\* what a call that runs alone on the collection or the storage engine leaves
\* alone
aside == <<timers, fired, tasks, now>>

--------------------------------------------------------------------------
\* JS values

Str(s) == [t |-> "string", v |-> s]
Undefined == [t |-> "undefined", v |-> <<>>]
Obj(f) == [t |-> "object", v |-> f]
Arr(q) == [t |-> "array", v |-> q]
Empty == [x \in {} |-> Undefined]

\* obj[key]: a missing property reads as undefined
Prop(obj, key) == IF key \in DOMAIN obj.v THEN obj.v[key] ELSE Undefined

\* a === b, on primitives
StrictEq(a, b) == a.t = b.t /\ a.v = b.v

\* !v
Falsy(v) == v.t = "undefined" \/ (v.t = "string" /\ v.v = <<>>)

\* outcomes of a call: a value, or a thrown error
Ok(x) == [ok |-> TRUE, err |-> "", val |-> x]
Throw(e) == [ok |-> FALSE, err |-> e, val |-> Undefined]

PathEscape == "Requested path is outside of the DB"
MissingRequired == "Required value not supplied and no default defined!"
UniqueViolation == "Schema requires unique value, but query found collision"
TypeError == "TypeError"

--------------------------------------------------------------------------
\* JSON.stringify and JSON.parse.  A text is [j, v]: a string's text is its
\* tokens between quotes, an object's text its members' texts (a member whose
\* value is undefined is left out), an array's text its items' texts.

NoText == [j |-> "none", v |-> <<>>]
Quote == "\""

RECURSIVE JSONstringify(_)
JSONstringify(x) ==
    CASE x.t = "string" -> [j |-> "str", v |-> <<Quote>> \o x.v \o <<Quote>>]
      [] x.t = "object" ->
            [j |-> "obj",
             v |-> [k \in {k \in DOMAIN x.v : x.v[k].t # "undefined"} |->
                        JSONstringify(x.v[k])]]
      [] x.t = "array" ->
            [j |-> "arr", v |-> [i \in DOMAIN x.v |-> JSONstringify(x.v[i])]]
      [] OTHER -> NoText

RECURSIVE JSONparse(_)
JSONparse(text) ==
    CASE text.j = "str" -> Str(SubSeq(text.v, 2, Len(text.v) - 1))
      [] text.j = "obj" -> Obj([k \in DOMAIN text.v |-> JSONparse(text.v[k])])
      [] text.j = "arr" -> Arr([i \in DOMAIN text.v |-> JSONparse(text.v[i])])
      [] OTHER -> Undefined

\* Buffer.from(s, "utf-8").toString("hex"): two hex digits per character
HexOf(c) ==
    CASE c = Quote -> <<"2", "2">>
      [] c = "a" -> <<"6", "1">>
      [] c = "b" -> <<"6", "2">>
      [] c = "k" -> <<"6", "b">>
      [] c = "x" -> <<"7", "8">>
      [] c = "y" -> <<"7", "9">>
      [] OTHER -> <<"3", "f">>

RECURSIVE Hex(_)
Hex(s) == IF s = <<>> THEN <<>> ELSE HexOf(Head(s)) \o Hex(Tail(s))

\* pathsafe: Buffer.from(undefined) throws
pathsafe(data) ==
    LET text == JSONstringify(data)
    IN  IF text.j = "str" THEN Ok(Hex(text.v)) ELSE Throw(TypeError)

--------------------------------------------------------------------------
\* Paths

Dot == <<".">>
DotDot == <<".", ".">>

\* path.normalize of an absolute path: "." and empty segments dropped, ".."
\* drops the segment before it (and nothing at the root)
RECURSIVE NormalizeFrom(_, _)
NormalizeFrom(done, rest) ==
    IF rest = <<>> THEN done
    ELSE LET s == Head(rest)
         IN  CASE s = Dot \/ s = <<>> -> NormalizeFrom(done, Tail(rest))
               [] s = DotDot ->
                    NormalizeFrom(IF done = <<>> THEN done
                                  ELSE SubSeq(done, 1, Len(done) - 1),
                                  Tail(rest))
               [] OTHER -> NormalizeFrom(Append(done, s), Tail(rest))

normalize(p) == NormalizeFrom(<<>>, p)

\* the text of an absolute path
RECURSIVE PathText(_)
PathText(p) ==
    IF p = <<>> THEN <<>> ELSE <<"/">> \o Head(p) \o PathText(Tail(p))

\* String.prototype.startsWith
startsWith(s, pre) == Len(pre) <= Len(s) /\ SubSeq(s, 1, Len(pre)) = pre

\* path/posix join: the arguments' segments, one after the other
join(a, b) == a \o b

dirname(p) == SubSeq(p, 1, Len(p) - 1)

\* q is p or lies under p
IsUnder(q, p) == Len(q) >= Len(p) /\ SubSeq(q, 1, Len(p)) = p

\* p and the directories above it
Ancestors(p) == {SubSeq(p, 1, n) : n \in 0..Len(p)}

--------------------------------------------------------------------------
\* PlexDB.storage.  The storage state st is [fs, dirs, cache, props]; an
\* operation that changes it returns [st, out], one that only reads returns
\* its outcome.

\* this.root = resolve(db_folfer): "/db"
root == << <<"d", "b">> >>

\* cache.has(path) reads the Map's entries; cache[path] reads and writes the
\* Map object's properties
cacheHas(st, path) == path \in DOMAIN st.cache
cacheGetProp(st, path) ==
    IF path \in DOMAIN st.props THEN st.props[path] ELSE Undefined

existsSync(st, p) == p \in DOMAIN st.fs \/ p \in st.dirs

storage_prefix(path) ==
    LET p == normalize(join(root, path))
    IN  IF ~startsWith(PathText(p), PathText(root)) THEN Throw(PathEscape)
        ELSE Ok(p)

storage_read(st, path) ==
    IF cacheHas(st, path) THEN Ok(cacheGetProp(st, path))
    ELSE LET pre == storage_prefix(path)
         IN  IF ~pre.ok THEN pre
             ELSE IF ~existsSync(st, pre.val) THEN Ok(Undefined)
             ELSE IF pre.val \in st.dirs THEN Throw("EISDIR")
             ELSE Ok(JSONparse(st.fs[pre.val]))

\* what an assignment keeps of data: an object is kept by reference (the
\* caller's document, named by its id, whose fields the caller may change), any
\* other value as it is
Reference(data) ==
    IF data.t = "object" THEN [t |-> "ref", v |-> Prop(data, "id").v] ELSE data

storage_write(st, path, data) ==
    LET st1 == [st EXCEPT !.props =
                    [k \in DOMAIN st.props \cup {path} |->
                        IF k = path THEN Reference(data) ELSE st.props[k]]]
        pre == storage_prefix(path)
    IN  IF ~pre.ok THEN [st |-> st1, out |-> pre]
        ELSE IF pre.val \in st.dirs THEN [st |-> st1, out |-> Throw("EISDIR")]
        ELSE [st |-> [st1 EXCEPT
                        !.dirs = st.dirs \cup Ancestors(dirname(pre.val)),
                        !.fs = [k \in DOMAIN st.fs \cup {pre.val} |->
                                    IF k = pre.val THEN JSONstringify(data)
                                    ELSE st.fs[k]]],
              out |-> Ok(Undefined)]

storage_exists(st, path) ==
    IF cacheHas(st, path) THEN Ok(TRUE)
    ELSE LET pre == storage_prefix(path)
         IN  IF ~pre.ok THEN pre ELSE Ok(existsSync(st, pre.val))

\* readdir: the names directly under the directory
storage_list(st, path) ==
    LET ex == storage_exists(st, path)
        pre == storage_prefix(path)
    IN  IF ~ex.ok THEN ex
        ELSE IF ~ex.val THEN Ok(Undefined)
        ELSE IF ~pre.ok THEN pre
        ELSE IF pre.val \notin st.dirs THEN Throw("ENOTDIR")
        ELSE Ok({q[Len(q)] : q \in {q \in DOMAIN st.fs \cup st.dirs :
                                        Len(q) = Len(pre.val) + 1
                                        /\ IsUnder(q, pre.val)}})

\* rm(p, {force, recursive}): p and everything under it
storage_remove(st, path) ==
    LET pre == storage_prefix(path)
        st1 == [st EXCEPT !.cache =
                    [k \in DOMAIN st.cache \ {pre.val} |-> st.cache[k]]]
        ex == storage_exists(st1, path)
    IN  IF ~pre.ok THEN [st |-> st, out |-> pre]
        ELSE IF ~ex.ok THEN [st |-> st1, out |-> ex]
        ELSE IF ~ex.val THEN [st |-> st1, out |-> Ok(Undefined)]
        ELSE [st |-> [st1 EXCEPT
                        !.fs = [k \in {k \in DOMAIN st.fs : ~IsUnder(k, pre.val)}
                                    |-> st.fs[k]],
                        !.dirs = {d \in st.dirs : ~IsUnder(d, pre.val)}],
              out |-> Ok(Undefined)]

storage_makedir(st, path) ==
    LET pre == storage_prefix(path)
    IN  IF ~pre.ok THEN [st |-> st, out |-> pre]
        ELSE IF pre.val \in DOMAIN st.fs THEN [st |-> st, out |-> Throw("EEXIST")]
        ELSE [st |-> [st EXCEPT !.dirs = st.dirs \cup Ancestors(pre.val)],
              out |-> Ok(Undefined)]

\* the callback of the cacheClear interval: below the mark it returns; at or
\* above it, rounds of Batch deletions, each of the key the Map's iterator
\* yields next, until the size is below the mark.  (The iterator's order is
\* the order of insertion, which the model does not record: which entries go
\* is a choice.)
RECURSIVE evict(_, _)
evict(entries, n) ==
    IF n = 0 \/ DOMAIN entries = {} THEN entries
    ELSE LET k == CHOOSE k \in DOMAIN entries : TRUE
         IN  evict([q \in DOMAIN entries \ {k} |-> entries[q]], n - 1)

RECURSIVE evictRounds(_)
evictRounds(entries) ==
    IF Cardinality(DOMAIN entries) < HighWater THEN entries
    ELSE evictRounds(evict(entries, Batch))

cacheClear(st) == [st EXCEPT !.cache = evictRounds(st.cache)]

--------------------------------------------------------------------------
\* Collection

\* the collection's name
name == <<"user">>

\* this.schema, in the order `for (let key in this.schema)` visits it.  The
\* constructor sets schema.id; u is the demo's username (indexed, unique,
\* required, defaulted by a random producer), n an indexed non-unique required
\* field with no default, p a plain optional field.
SchemaKeys == <<"id", "u", "n", "p">>
schema ==
    [id |-> [index |-> TRUE, unique |-> TRUE, required |-> TRUE, default |-> "producer"],
     u  |-> [index |-> TRUE, unique |-> TRUE, required |-> TRUE, default |-> "producer"],
     n  |-> [index |-> TRUE, unique |-> FALSE, required |-> TRUE, default |-> "none"],
     p  |-> [index |-> FALSE, unique |-> FALSE, required |-> FALSE, default |-> "none"]]

\* Object.keys(data), in the schema's order
RECURSIVE KeysFrom(_, _)
KeysFrom(obj, i) ==
    IF i > Len(SchemaKeys) THEN <<>>
    ELSE (IF SchemaKeys[i] \in DOMAIN obj.v THEN <<SchemaKeys[i]>> ELSE <<>>)
         \o KeysFrom(obj, i + 1)

ObjectKeys(obj) == KeysFrom(obj, 1)

\* obj with obj[key] = val
SetProp(obj, key, val) ==
    Obj([k \in DOMAIN obj.v \cup {key} |-> IF k = key THEN val ELSE obj.v[k]])

\* join("data", this.name, id) and join("index", this.name, key, pathsafe(value))
dataPath(id) == << <<"data">>, name, id.v >>
indexPath(key, ps) == << <<"index">>, name, <<key>>, ps >>

Event(nm, args) == [name |-> nm, args |-> args]

\* candidates kept as a list: every item is appended, seen before or not
AddAllKeepDuplicates(set, items) == set \o items

\* Set.prototype.add of each item, in order
RECURSIVE AddAll(_, _)
AddAll(set, items) ==
    IF items = <<>> THEN set
    ELSE AddAll(IF \E i \in DOMAIN set : set[i] = Head(items) THEN set
                ELSE Append(set, Head(items)),
                Tail(items))

\* one key's callback of findAll and findOne: the ids it adds to candidates
probe(st, data, key) ==
    IF key = "id" THEN Ok(<<>>)
    ELSE IF key \notin DOMAIN schema \/ ~schema[key].index THEN Ok(<<>>)
    ELSE LET ps == pathsafe(data.v[key])
             ex == storage_exists(st, indexPath(key, ps.val))
             rd == storage_read(st, indexPath(key, ps.val))
         IN  IF ~ps.ok THEN ps
             ELSE IF ~ex.ok THEN ex
             ELSE IF ~ex.val THEN Ok(<<>>)
             ELSE IF ~rd.ok THEN rd
             ELSE IF schema[key].unique THEN Ok(<<rd.val>>)
             ELSE IF rd.val.t # "array" THEN Throw(TypeError)
             ELSE Ok(rd.val.v)

\* the candidates Set once every callback is done; ord is the order in which
\* the callbacks' reads complete
RECURSIVE candidatesFrom(_, _, _, _)
candidatesFrom(st, data, ord, set) ==
    IF ord = <<>> THEN Ok(set)
    ELSE LET pr == probe(st, data, Head(ord))
         IN  IF ~pr.ok THEN pr
             ELSE candidatesFrom(st, data, Tail(ord), AddAll(set, pr.val))

\* a final check that compares only the fields the schema indexes
indexedKeysEqual(data, obj) ==
    IF DOMAIN data.v = {} THEN Ok(TRUE)
    ELSE IF obj.t = "undefined" THEN Throw(TypeError)
    ELSE Ok(\A key \in {k \in DOMAIN data.v : k \in DOMAIN schema /\ schema[k].index} :
                StrictEq(data.v[key], Prop(obj, key)))

\* Object.keys(data).every(key => data[key] === obj[key]); reading a property
\* of undefined throws
everyKeyEqual(data, obj) ==
    IF DOMAIN data.v = {} THEN Ok(TRUE)
    ELSE IF obj.t = "undefined" THEN Throw(TypeError)
    ELSE Ok(\A key \in DOMAIN data.v : StrictEq(data.v[key], Prop(obj, key)))

\* findAll's loop over the candidates
RECURSIVE findAllFrom(_, _, _, _)
findAllFrom(st, data, cands, results) ==
    IF cands = <<>> THEN Ok(Arr(results))
    ELSE LET rd == IF Head(cands).t = "string"
                   THEN storage_read(st, dataPath(Head(cands)))
                   ELSE Throw(TypeError)
             eq == everyKeyEqual(data, rd.val)
         IN  IF ~rd.ok THEN rd
             ELSE IF ~eq.ok THEN eq
             ELSE findAllFrom(st, data, Tail(cands),
                              IF eq.val THEN Append(results, rd.val) ELSE results)

findAll(st, data, ord) ==
    LET cs == candidatesFrom(st, data, ord, <<>>)
        res == findAllFrom(st, data, cs.val, <<>>)
    IN  IF ~cs.ok THEN [out |-> cs, events |-> <<>>]
        ELSE IF ~res.ok THEN [out |-> res, events |-> <<>>]
        ELSE [out |-> res, events |-> <<Event("query", <<data, res.val>>)>>]

\* findOne's loop: the first candidate that matches
RECURSIVE findOneFrom(_, _, _)
findOneFrom(st, data, cands) ==
    IF cands = <<>> THEN [out |-> Ok(Undefined), events |-> <<>>]
    ELSE LET rd == IF Head(cands).t = "string"
                   THEN storage_read(st, dataPath(Head(cands)))
                   ELSE Throw(TypeError)
             eq == everyKeyEqual(data, rd.val)
         IN  IF ~rd.ok THEN [out |-> rd, events |-> <<>>]
             ELSE IF ~eq.ok THEN [out |-> eq, events |-> <<>>]
             ELSE IF eq.val
                  THEN [out |-> rd,
                        events |-> <<Event("query", <<data, Arr(<<rd.val>>)>>)>>]
             ELSE findOneFrom(st, data, Tail(cands))

findOne(st, data, ord) ==
    LET cs == candidatesFrom(st, data, ord, <<>>)
    IN  IF ~cs.ok THEN [out |-> cs, events |-> <<>>]
        ELSE findOneFrom(st, data, cs.val)

get(st, id) == storage_read(st, dataPath(id))

\* one key's callback of write
writeKey(st, data, key) ==
    IF key = "id" THEN [st |-> st, out |-> Ok(Undefined), events |-> <<>>]
    ELSE IF key \notin DOMAIN schema
         THEN [st |-> st, out |-> Throw(TypeError), events |-> <<>>]
    ELSE IF ~schema[key].index
         THEN [st |-> st, out |-> Ok(Undefined), events |-> <<>>]
    ELSE LET ps == pathsafe(data.v[key])
             ip == indexPath(key, ps.val)
             rd == storage_read(st, ip)
             ids == IF Falsy(rd.val) THEN Arr(<<>>) ELSE rd.val
             w == IF schema[key].unique
                  THEN storage_write(st, ip, Prop(data, "id"))
                  ELSE storage_write(st, ip, Arr(Append(ids.v, Prop(data, "id"))))
         IN  IF ~ps.ok THEN [st |-> st, out |-> ps, events |-> <<>>]
             ELSE IF schema[key].unique
                  THEN [st |-> w.st, out |-> w.out, events |-> <<>>]
             ELSE IF ~rd.ok THEN [st |-> st, out |-> rd, events |-> <<>>]
             ELSE IF ids.t # "array"
                  THEN [st |-> st, out |-> Throw(TypeError), events |-> <<>>]
             ELSE [st |-> w.st, out |-> w.out,
                   events |-> IF w.out.ok THEN <<Event("write", <<data>>)>>
                              ELSE <<>>]

\* the callbacks of write, one key after the other; the call rejects with the
\* first error and the other callbacks still run
RECURSIVE writeKeys(_, _, _)
writeKeys(acc, data, keys) ==
    IF keys = <<>> THEN acc
    ELSE LET r == writeKey(acc.st, data, Head(keys))
         IN  writeKeys([st |-> r.st,
                        out |-> IF acc.out.ok THEN r.out ELSE acc.out,
                        events |-> acc.events \o r.events],
                       data, Tail(keys))

\* a write that updates the index entries and leaves the data file out
writeIndexOnly(st, data) ==
    writeKeys([st |-> st, out |-> Ok(Undefined),
               events |-> <<Event("write", <<data>>)>>],
              data, ObjectKeys(data))

write(st, data) ==
    LET w == storage_write(st, dataPath(Prop(data, "id")), data)
    IN  writeKeys([st |-> w.st, out |-> w.out,
                   events |-> <<Event("write", <<data>>)>>],
                  data, ObjectKeys(data))

\* write, cut where its callbacks wait.  The first part is what runs before
\* any read completes: the data file and the unique index entries are written
\* and the non-unique index entries are read.  The second part is what runs
\* once the reads are back: each id sequence read gets the id appended and is
\* written back.

\* a begin that leaves a unique index entry that exists as it is
writeKeyBeginKeepFirst(st, data, key) ==
    IF key = "id" \/ key \notin DOMAIN schema \/ ~schema[key].index
    THEN [st |-> st, out |-> Ok(Undefined), events |-> <<>>, reads |-> Empty]
    ELSE LET ps == pathsafe(data.v[key])
             ip == indexPath(key, ps.val)
             rd == storage_read(st, ip)
             w == IF storage_exists(st, ip).val
                  THEN [st |-> st, out |-> Ok(Undefined)]
                  ELSE storage_write(st, ip, Prop(data, "id"))
         IN  IF schema[key].unique
             THEN [st |-> w.st, out |-> w.out, events |-> <<>>, reads |-> Empty]
             ELSE [st |-> st, out |-> Ok(Undefined), events |-> <<>>,
                   reads |-> [k \in {key} |-> rd]]

writeKeyBegin(st, data, key) ==
    IF key = "id"
    THEN [st |-> st, out |-> Ok(Undefined), events |-> <<>>, reads |-> Empty]
    ELSE IF key \notin DOMAIN schema
         THEN [st |-> st, out |-> Throw(TypeError), events |-> <<>>, reads |-> Empty]
    ELSE IF ~schema[key].index
         THEN [st |-> st, out |-> Ok(Undefined), events |-> <<>>, reads |-> Empty]
    ELSE LET ps == pathsafe(data.v[key])
             ip == indexPath(key, ps.val)
             rd == storage_read(st, ip)
             w == storage_write(st, ip, Prop(data, "id"))
         IN  IF ~ps.ok
             THEN [st |-> st, out |-> ps, events |-> <<>>, reads |-> Empty]
             ELSE IF schema[key].unique
                  THEN [st |-> w.st, out |-> w.out, events |-> <<>>, reads |-> Empty]
             ELSE [st |-> st, out |-> Ok(Undefined), events |-> <<>>,
                   reads |-> [k \in {key} |-> rd]]

RECURSIVE writeKeysBegin(_, _, _)
writeKeysBegin(acc, data, keys) ==
    IF keys = <<>> THEN acc
    ELSE LET r == writeKeyBegin(acc.st, data, Head(keys))
         IN  writeKeysBegin([st |-> r.st,
                             out |-> IF acc.out.ok THEN r.out ELSE acc.out,
                             events |-> acc.events \o r.events,
                             reads |-> acc.reads @@ r.reads],
                            data, Tail(keys))

writeBegin(st, data) ==
    LET w == storage_write(st, dataPath(Prop(data, "id")), data)
    IN  writeKeysBegin([st |-> w.st, out |-> w.out,
                        events |-> <<Event("write", <<data>>)>>, reads |-> Empty],
                       data, ObjectKeys(data))

\* an end that reads the id sequence again before it appends
writeKeyEndReread(st, data, key, rd) ==
    LET ip == indexPath(key, pathsafe(data.v[key]).val)
        now2 == storage_read(st, ip)
        ids == IF Falsy(now2.val) THEN Arr(<<>>) ELSE now2.val
        w == storage_write(st, ip, Arr(Append(ids.v, Prop(data, "id"))))
    IN  [st |-> w.st, out |-> w.out, events |-> <<Event("write", <<data>>)>>]

writeKeyEnd(st, data, key, rd) ==
    LET ip == indexPath(key, pathsafe(data.v[key]).val)
        ids == IF Falsy(rd.val) THEN Arr(<<>>) ELSE rd.val
        w == storage_write(st, ip, Arr(Append(ids.v, Prop(data, "id"))))
    IN  IF ~rd.ok THEN [st |-> st, out |-> rd, events |-> <<>>]
        ELSE IF ids.t # "array"
             THEN [st |-> st, out |-> Throw(TypeError), events |-> <<>>]
        ELSE [st |-> w.st, out |-> w.out,
              events |-> IF w.out.ok THEN <<Event("write", <<data>>)>> ELSE <<>>]

RECURSIVE writeKeysEnd(_, _, _, _)
writeKeysEnd(acc, data, keys, reads) ==
    IF keys = <<>> THEN acc
    ELSE IF Head(keys) \notin DOMAIN reads
         THEN writeKeysEnd(acc, data, Tail(keys), reads)
    ELSE LET r == writeKeyEnd(acc.st, data, Head(keys), reads[Head(keys)])
         IN  writeKeysEnd([st |-> r.st,
                           out |-> IF acc.out.ok THEN r.out ELSE acc.out,
                           events |-> acc.events \o r.events],
                          data, Tail(keys), reads)

writeEnd(st, data, reads) ==
    writeKeysEnd([st |-> st, out |-> Ok(Undefined), events |-> <<>>],
                 data, ObjectKeys(data), reads)

\* a callback of delete that takes only the document's id out of the id
\* sequence of a non-unique field
deleteKeyOnlyId(st, data, key) ==
    IF key = "id" \/ key \notin DOMAIN schema \/ ~schema[key].index
    THEN [st |-> st, out |-> Ok(Undefined), events |-> <<>>]
    ELSE LET ip == indexPath(key, pathsafe(data.v[key]).val)
             rd == storage_read(st, ip)
             rest == IF rd.ok /\ rd.val.t = "array"
                     THEN SelectSeq(rd.val.v, LAMBDA x : x # Prop(data, "id"))
                     ELSE <<>>
             r == IF schema[key].unique \/ rest = <<>>
                  THEN storage_remove(st, ip)
                  ELSE storage_write(st, ip, Arr(rest))
         IN  [st |-> r.st, out |-> r.out,
              events |-> <<Event("delete", <<Prop(data, "id")>>)>>]

\* one key's callback of delete
deleteKey(st, data, key) ==
    IF key = "id" THEN [st |-> st, out |-> Ok(Undefined), events |-> <<>>]
    ELSE IF key \notin DOMAIN schema
         THEN [st |-> st, out |-> Throw(TypeError), events |-> <<>>]
    ELSE IF ~schema[key].index
         THEN [st |-> st, out |-> Ok(Undefined), events |-> <<>>]
    ELSE LET ps == pathsafe(data.v[key])
             r == storage_remove(st, indexPath(key, ps.val))
         IN  IF ~ps.ok THEN [st |-> st, out |-> ps, events |-> <<>>]
             ELSE [st |-> r.st, out |-> r.out,
                   events |-> IF r.out.ok
                              THEN <<Event("delete", <<Prop(data, "id")>>)>>
                              ELSE <<>>]

RECURSIVE deleteKeys(_, _, _)
deleteKeys(acc, data, keys) ==
    IF keys = <<>> THEN acc
    ELSE LET r == deleteKey(acc.st, data, Head(keys))
         IN  deleteKeys([st |-> r.st,
                         out |-> IF acc.out.ok THEN r.out ELSE acc.out,
                         events |-> acc.events \o r.events],
                        data, Tail(keys))

delete(st, data) ==
    LET r == storage_remove(st, dataPath(Prop(data, "id")))
    IN  deleteKeys([st |-> r.st, out |-> r.out, events |-> <<>>],
                   data, ObjectKeys(data))

\* create's loop over the schema from its i-th key on.  uuid is what
\* randomUUID returns and rnd what the default producer returns.  Nothing in
\* it writes: the storage state comes back as findOne left it.
RECURSIVE createFrom(_, _, _, _, _, _)
createFrom(st, data, i, events, uuid, rnd) ==
    IF i > Len(SchemaKeys)
    THEN [st |-> st, out |-> Ok(data),
          events |-> events \o <<Event("create", <<data>>)>>]
    ELSE LET key == SchemaKeys[i]
             absent == schema[key].required /\ Falsy(Prop(data, key))
             data1 == IF absent THEN SetProp(data, key, rnd) ELSE data
             fo == findOne(st, Obj([k \in {key} |-> Prop(data1, key)]), <<key>>)
         IN  IF key = "id"
             THEN createFrom(st, SetProp(data, "id", uuid), i + 1, events, uuid, rnd)
             ELSE IF absent /\ schema[key].default = "none"
                  THEN [st |-> st, out |-> Throw(MissingRequired), events |-> events]
             ELSE IF ~schema[key].unique
                  THEN createFrom(st, data1, i + 1, events, uuid, rnd)
             ELSE IF ~fo.out.ok
                  THEN [st |-> st, out |-> fo.out, events |-> events \o fo.events]
             ELSE IF ~Falsy(fo.out.val)
                  THEN [st |-> st, out |-> Throw(UniqueViolation),
                        events |-> events \o fo.events]
             ELSE createFrom(st, data1, i + 1, events \o fo.events, uuid, rnd)

\* a create that persists the document it assembled
createAndWrite(st, data, uuid, rnd) ==
    LET c == createFrom(st, data, 1, <<>>, uuid, rnd)
        w == write(c.st, c.out.val)
    IN  IF ~c.out.ok THEN c
        ELSE [st |-> w.st, out |-> c.out, events |-> c.events \o w.events]

create(st, data, uuid, rnd) == createFrom(st, data, 1, <<>>, uuid, rnd)

--------------------------------------------------------------------------
\* The caller: the values it gives the fields, and what it passes to create

A == Str(<<"a">>)
B == Str(<<"b">>)
X == Str(<<"x">>)
Y == Str(<<"y">>)
K == Str(<<"k">>)

\* the values the caller gives a document's fields (its documents carry no p)
FieldValues == [u |-> {A, B}, n |-> {X, Y}, p |-> {}]
Optional == {"p"}

\* the objects whose keys are all of must and some of may
ObjectsOver(must, may) ==
    {Obj(f) : f \in UNION {{g \in [must \cup s -> UNION {FieldValues[k] : k \in must \cup s}] :
                                \A k \in DOMAIN g : g[k] \in FieldValues[k]} :
                           s \in SUBSET may}}

\* what the caller passes to create: any of the fields, or none
CreateInputs == ObjectsOver({}, DOMAIN FieldValues)

\* what the default producer of u may return; it is called only when u is
\* missing from the input
Produced(input) ==
    IF Falsy(Prop(input, "u")) THEN FieldValues["u"] ELSE {Undefined}

\* randomUUID: an id no document has yet
Uuid(i) == Str(<<"id" \o ToString(i)>>)
randomUUID == Uuid(Cardinality(held) + 1)

\* The documents the caller may hold: an object create returned is the
\* caller's, and it may have assigned any of the fields since.
Documents ==
    {SetProp(o, "id", id) :
        o \in ObjectsOver(DOMAIN FieldValues \ Optional, Optional), id \in held}

Storage == [fs |-> fs, dirs |-> dirs, cache |-> cache, props |-> cacheProps]

Called(op, doc, out) == [op |-> op, doc |-> doc, err |-> out.err]

--------------------------------------------------------------------------
\* The database after createNew, new PlexDB(root) and db.collection(name, ..)

\* both intervals are set when the instance is constructed; no call is in
\* flight
Quiet ==
    /\ timers = {"autosave", "cacheClear"}
    /\ fired = <<>>
    /\ tasks = <<>>
    /\ now = 0

meta ==
    Obj([k \in {"collections", "indexes", "name"} |->
            CASE k = "collections" -> Arr(<<>>)
              [] k = "indexes" -> Obj(Empty)
              [] OTHER -> Str(<<"db0">>)])

Init ==
    /\ fs = [f \in {root \o << <<".plexmeta">> >>} |-> JSONstringify(meta)]
    /\ dirs = Ancestors(root \o << <<"data">>, name >>)
              \cup Ancestors(root \o << <<"index">>, name >>)
              \cup {root \o << <<"index">>, name, <<k>> >> :
                        k \in {k \in DOMAIN schema : k # "id" /\ schema[k].index}}
    /\ cache = Empty
    /\ cacheProps = Empty
    /\ held = {}
    /\ written = Empty
    /\ last = Called("none", Undefined, Ok(Undefined))
    /\ Quiet

\* the caller calls collection.create(input)
Create(input, rnd) ==
    /\ Cardinality(held) < MaxDocs
    /\ \E r \in {create(Storage, input, randomUUID, rnd)} :
           /\ fs' = r.st.fs
           /\ dirs' = r.st.dirs
           /\ cache' = r.st.cache
           /\ cacheProps' = r.st.props
           /\ held' = IF r.out.ok THEN held \cup {randomUUID} ELSE held
           /\ last' = Called("create", r.out.val, r.out)
    /\ UNCHANGED <<written, aside>>

\* the non-unique index files data's write appends to are below the bound
IndexRoom(data) ==
    \A key \in DOMAIN data.v :
        (key # "id" /\ schema[key].index /\ ~schema[key].unique) =>
            LET rd == storage_read(Storage, indexPath(key, pathsafe(data.v[key]).val))
            IN  rd.val.t = "array" => Len(rd.val.v) < MaxIdxLen

\* the caller calls collection.write(d) on one of its documents
Write(d) ==
    /\ IndexRoom(d)
    /\ \E r \in {write(Storage, d)} :
           /\ fs' = r.st.fs
           /\ dirs' = r.st.dirs
           /\ cache' = r.st.cache
           /\ cacheProps' = r.st.props
           /\ last' = Called("write", d, r.out)
    /\ written' = [k \in DOMAIN written \cup {Prop(d, "id")} |->
                    IF k = Prop(d, "id") THEN d ELSE written[k]]
    /\ UNCHANGED <<held, aside>>

\* the caller calls collection.delete(d) on one of its documents
Delete(d) ==
    /\ \E r \in {delete(Storage, d)} :
           /\ fs' = r.st.fs
           /\ dirs' = r.st.dirs
           /\ cache' = r.st.cache
           /\ cacheProps' = r.st.props
           /\ last' = Called("delete", d, r.out)
    /\ written' = [k \in DOMAIN written \ {Prop(d, "id")} |-> written[k]]
    /\ UNCHANGED <<held, aside>>

Next ==
    \/ \E input \in CreateInputs : \E rnd \in Produced(input) : Create(input, rnd)
    \/ \E d \in Documents : Write(d)
    \/ \E d \in Documents : Delete(d)

Spec == Init /\ [][Next]_vars

--------------------------------------------------------------------------
\* The storage engine called directly, one call on one logical path, in a
\* database whose parent directory holds a sibling directory "/db2" too

sibling == << <<"d", "b", "2">> >>
Segments == {DotDot, <<"d", "b", "2">>, <<"e">>}

RECURSIVE PathsOfLen(_)
PathsOfLen(n) ==
    IF n = 0 THEN {<<>>}
    ELSE {Append(q, s) : q \in PathsOfLen(n - 1), s \in Segments}

LogicalPaths == UNION {PathsOfLen(n) : n \in 1..MaxPathLen}

PathInitFs ==
    [f \in {root \o << <<".plexmeta">> >>, sibling \o << <<"e">> >>} |->
        IF f[1] = root[1] THEN JSONstringify(meta) ELSE JSONstringify(K)]

PathInitDirs ==
    Ancestors(root \o << <<"data">> >>) \cup Ancestors(root \o << <<"index">> >>)
        \cup {sibling}

PathInit ==
    /\ fs = PathInitFs
    /\ dirs = PathInitDirs
    /\ cache = Empty
    /\ cacheProps = Empty
    /\ held = {}
    /\ written = Empty
    /\ last = Called("none", Undefined, Ok(Undefined))
    /\ Quiet

PathArg(path) == [t |-> "path", v |-> path]

\* what a call that changes the storage state leaves behind
Applied(r) ==
    /\ fs' = r.st.fs
    /\ dirs' = r.st.dirs
    /\ cache' = r.st.cache
    /\ cacheProps' = r.st.props

StorageRead(path) ==
    /\ last.op = "none"
    /\ last' = Called("storage.read", PathArg(path), storage_read(Storage, path))
    /\ UNCHANGED <<fs, dirs, cache, cacheProps, held, written, aside>>

StorageExists(path) ==
    /\ last.op = "none"
    /\ last' = Called("storage.exists", PathArg(path), storage_exists(Storage, path))
    /\ UNCHANGED <<fs, dirs, cache, cacheProps, held, written, aside>>

StorageList(path) ==
    /\ last.op = "none"
    /\ last' = Called("storage.list", PathArg(path), storage_list(Storage, path))
    /\ UNCHANGED <<fs, dirs, cache, cacheProps, held, written, aside>>

StorageWrite(path) ==
    /\ last.op = "none"
    /\ \E r \in {storage_write(Storage, path, A)} :
           /\ Applied(r)
           /\ last' = Called("storage.write", PathArg(path), r.out)
    /\ UNCHANGED <<held, written, aside>>

StorageRemove(path) ==
    /\ last.op = "none"
    /\ \E r \in {storage_remove(Storage, path)} :
           /\ Applied(r)
           /\ last' = Called("storage.remove", PathArg(path), r.out)
    /\ UNCHANGED <<held, written, aside>>

StorageMakedir(path) ==
    /\ last.op = "none"
    /\ \E r \in {storage_makedir(Storage, path)} :
           /\ Applied(r)
           /\ last' = Called("storage.makedir", PathArg(path), r.out)
    /\ UNCHANGED <<held, written, aside>>

PathNext ==
    \E path \in LogicalPaths :
        \/ StorageRead(path)
        \/ StorageWrite(path)
        \/ StorageExists(path)
        \/ StorageList(path)
        \/ StorageRemove(path)
        \/ StorageMakedir(path)

SpecPath == PathInit /\ [][PathNext]_vars

--------------------------------------------------------------------------
\* PlexServer's background activity and close(): the two intervals fire in any
\* order while they are set, and the caller may call close.

\* the callback of the autosave interval: this.root and this.meta are set
AutosaveTick ==
    /\ "autosave" \in timers
    /\ Len(fired) < MaxFired
    /\ \E r \in {storage_write(Storage, << <<".plexmeta">> >>, meta)} : Applied(r)
    /\ fired' = Append(fired, "autosave")
    /\ UNCHANGED <<held, written, last, timers, tasks, now>>

\* the callback of the cacheClear interval
CacheClearTick ==
    /\ "cacheClear" \in timers
    /\ Len(fired) < MaxFired
    /\ \E st \in {cacheClear(Storage)} :
           /\ cache' = st.cache
           /\ cacheProps' = st.props
    /\ fired' = Append(fired, "cacheClear")
    /\ last' = Called("cacheClear", Undefined, Ok(Undefined))
    /\ UNCHANGED <<fs, dirs, held, written, timers, tasks, now>>

\* close(): emits "close", clears the autosave interval, writes the metadata
Close ==
    /\ Len(fired) < MaxFired
    /\ timers' = timers \ {"autosave"}
    /\ \E r \in {storage_write(Storage, << <<".plexmeta">> >>, meta)} :
           /\ Applied(r)
           /\ last' = Called("close", Undefined, r.out)
    /\ fired' = Append(fired, "close")
    /\ UNCHANGED <<held, written, tasks, now>>

CloseNext == AutosaveTick \/ CacheClearTick \/ Close

SpecClose == Init /\ [][CloseNext]_vars

--------------------------------------------------------------------------
\* The storage engine and its cache: writes, reads and removals of a few
\* logical paths, more of them than the eviction mark, while the cacheClear
\* interval fires.

CachePaths == {<< <<"c" \o ToString(i)>> >> : i \in 1..(HighWater + 1)}

WriteArg(path, data) == [t |-> "path", v |-> path, data |-> data]

CacheWrite(path, data) ==
    /\ \E r \in {storage_write(Storage, path, data)} :
           /\ Applied(r)
           /\ last' = Called("storage.write", WriteArg(path, data), r.out)
    /\ UNCHANGED <<held, written, aside>>

CacheRead(path) ==
    /\ last' = Called("storage.read", PathArg(path), storage_read(Storage, path))
    /\ UNCHANGED <<fs, dirs, cache, cacheProps, held, written, aside>>

CacheRemove(path) ==
    /\ \E r \in {storage_remove(Storage, path)} :
           /\ Applied(r)
           /\ last' = Called("storage.remove", PathArg(path), r.out)
    /\ UNCHANGED <<held, written, aside>>

CacheNext ==
    \/ \E path \in CachePaths : \E data \in {A, B} : CacheWrite(path, data)
    \/ \E path \in CachePaths : CacheRead(path)
    \/ \E path \in CachePaths : CacheRemove(path)
    \/ CacheClearTick

SpecCache == Init /\ [][CacheNext]_vars

--------------------------------------------------------------------------
\* Concurrent callers: each task calls create and then write on what create
\* returned; the tasks' steps interleave where the calls wait.

Tasks == 1..NTasks

\* what the tasks pass to create: every field given
RaceInputs == ObjectsOver(DOMAIN FieldValues \ Optional, {})

Begun == {t \in Tasks : tasks[t].pc \in {"writeBack", "done"}}
Ended == {t \in Tasks : tasks[t].pc = "done"}

RaceInit ==
    /\ fs = [f \in {root \o << <<".plexmeta">> >>} |-> JSONstringify(meta)]
    /\ dirs = Ancestors(root \o << <<"data">>, name >>)
              \cup Ancestors(root \o << <<"index">>, name >>)
              \cup {root \o << <<"index">>, name, <<k>> >> :
                        k \in {k \in DOMAIN schema : k # "id" /\ schema[k].index}}
    /\ cache = Empty
    /\ cacheProps = Empty
    /\ held = {}
    /\ written = Empty
    /\ last = Called("none", Undefined, Ok(Undefined))
    /\ timers = {"autosave", "cacheClear"}
    /\ fired = <<>>
    /\ now = 0
    /\ tasks = [t \in Tasks |->
                    [pc |-> "create", doc |-> Undefined, reads |-> Empty, ok |-> TRUE,
                     checkedAfter |-> {}, begunAfter |-> {}, endedBefore |-> {}]]

\* task t calls create; history: the tasks whose write had begun by then
RaceCreate(t, input) ==
    /\ tasks[t].pc = "create"
    /\ \E r \in {create(Storage, input, randomUUID, Undefined)} :
           /\ Applied(r)
           /\ held' = IF r.out.ok THEN held \cup {randomUUID} ELSE held
           /\ last' = Called("create", r.out.val, r.out)
           /\ tasks' = [tasks EXCEPT ![t] =
                            [@ EXCEPT !.pc = IF r.out.ok THEN "write" ELSE "failed",
                                      !.doc = r.out.val,
                                      !.checkedAfter = Begun]]
    /\ UNCHANGED <<written, timers, fired, now>>

\* task t calls write: the part before the reads are back
RaceWriteBegin(t) ==
    /\ tasks[t].pc = "write"
    /\ \E r \in {writeBegin(Storage, tasks[t].doc)} :
           /\ Applied(r)
           /\ last' = Called("write", tasks[t].doc, r.out)
           /\ tasks' = [tasks EXCEPT ![t] =
                            [@ EXCEPT !.pc = "writeBack",
                                      !.reads = r.reads,
                                      !.ok = r.out.ok,
                                      !.begunAfter = Begun,
                                      !.endedBefore = Ended]]
    /\ written' = [k \in DOMAIN written \cup {Prop(tasks[t].doc, "id")} |->
                    IF k = Prop(tasks[t].doc, "id") THEN tasks[t].doc
                    ELSE written[k]]
    /\ UNCHANGED <<held, timers, fired, now>>

\* task t's write: the part after the reads are back
RaceWriteEnd(t) ==
    /\ tasks[t].pc = "writeBack"
    /\ \E r \in {writeEnd(Storage, tasks[t].doc, tasks[t].reads)} :
           /\ Applied(r)
           /\ last' = Called("write", tasks[t].doc, r.out)
           /\ tasks' = [tasks EXCEPT ![t] =
                            [@ EXCEPT !.pc = "done", !.ok = @ /\ r.out.ok]]
    /\ UNCHANGED <<held, written, timers, fired, now>>

RaceNext ==
    \E t \in Tasks :
        \/ \E input \in RaceInputs : RaceCreate(t, input)
        \/ RaceWriteBegin(t)
        \/ RaceWriteEnd(t)

SpecRace == RaceInit /\ [][RaceNext]_vars

--------------------------------------------------------------------------
\* create called with fields that are present and falsy.  The call's input
\* and outcome are kept in tasks; the caller writes what create returned.

\* the empty string, the falsy value a string field can hold
Blank == Str(<<>>)

\* what the caller passes to create: each required field absent, given a
\* value, or given the empty string
CreateArgs ==
    LET req == {k \in DOMAIN schema : k # "id" /\ schema[k].required}
    IN  {Obj(f) : f \in UNION {{g \in [s -> UNION {FieldValues[k] : k \in s} \cup {Blank}] :
                                    \A k \in s : g[k] \in FieldValues[k] \cup {Blank}} :
                               s \in SUBSET req}}

CreateOf(input, rnd) ==
    /\ Cardinality(held) < MaxDocs
    /\ \E r \in {create(Storage, input, randomUUID, rnd)} :
           /\ Applied(r)
           /\ held' = IF r.out.ok THEN held \cup {randomUUID} ELSE held
           /\ last' = Called("create", r.out.val, r.out)
           /\ tasks' = [input |-> input, rnd |-> rnd, out |-> r.out]
    /\ UNCHANGED <<written, timers, fired, now>>

WriteReturned ==
    /\ tasks # <<>>
    /\ tasks.out.ok
    /\ Write(tasks.out.val)

CreateNext ==
    \/ \E input \in CreateArgs : \E rnd \in Produced(input) : CreateOf(input, rnd)
    \/ WriteReturned

SpecCreate == Init /\ [][CreateNext]_vars

--------------------------------------------------------------------------
\* What the caller may ask

Uuids == {Uuid(i) : i \in 1..MaxDocs}

QueryValues == [id |-> Uuids, u |-> {A, B}, n |-> {X, Y}, p |-> {K}]

\* the queries: some of the schema's keys, each with one of its values
Queries ==
    {Obj(f) : f \in UNION {{g \in [s -> UNION {QueryValues[k] : k \in s}] :
                                \A k \in s : g[k] \in QueryValues[k]} :
                           s \in {s \in SUBSET DOMAIN QueryValues :
                                    Cardinality(s) <= MaxQueryKeys}}}

\* the keys of data whose callback reads an index file
Probing(data) == {k \in DOMAIN data.v : k # "id" /\ k \in DOMAIN schema /\ schema[k].index}

Perms(S) == {q \in [1..Cardinality(S) -> S] : \A i, j \in DOMAIN q : q[i] = q[j] => i = j}

\* the orders in which the reads of data's callbacks may complete
Orders(data) == Perms(Probing(data))

\* the documents in the data area
Persisted == {get(Storage, id).val : id \in {id \in held : get(Storage, id).val # Undefined}}

Items(arr) == {arr.v[i] : i \in DOMAIN arr.v}

Only(key, val) == Obj([k \in {key} |-> val])

--------------------------------------------------------------------------
\* queryAll, of the two Collection classes.  Each entry of the listing runs
\* its callback; the callbacks' steps interleave where they wait, and the
\* clock now advances between them.

Variants == {"PlexDB", "PlexServer"}
Runtimes == 0..MaxRuntime

\* the stores queryAll is called on: up to MaxDocs documents written
RECURSIVE WriteAll(_, _)
WriteAll(st, docs) ==
    IF docs = <<>> THEN st ELSE WriteAll(write(st, Head(docs)).st, Tail(docs))

Written(k) ==
    {q \in [1..k -> {SetProp(o, "id", Uuid(i)) :
                        o \in ObjectsOver(DOMAIN FieldValues \ Optional, {}),
                        i \in 1..k}] :
        \A i \in 1..k : Prop(q[i], "id") = Uuid(i)}

\* the task the caller passes: it returns what it was given
task(data) == data

\* wait(ms): the time its timer is due
wait(ms) == now + ms

\* the callback of the entry [index, id], up to its first wait
entered(variant, runtime, index, id) ==
    IF variant = "PlexDB"
    THEN [id |-> id, pc |-> "loading", loadStart |-> now, due |-> -1,
          data |-> Undefined, invokedAt |-> -1, result |-> Undefined]
    ELSE [id |-> id, pc |-> "waiting", loadStart |-> -1,
          due |-> wait(runtime * index),
          data |-> Undefined, invokedAt |-> -1, result |-> Undefined]

QueryAllInit ==
    /\ \E k \in 0..MaxDocs : \E docs \in Written(k) :
           \E st \in {WriteAll([fs |-> [f \in {root \o << <<".plexmeta">> >>} |->
                                             JSONstringify(meta)],
                                 dirs |-> Ancestors(root \o << <<"data">>, name >>)
                                     \cup Ancestors(root \o << <<"index">>, name >>)
                                     \cup {root \o << <<"index">>, name, <<f>> >> :
                                               f \in {f \in DOMAIN schema :
                                                          f # "id" /\ schema[f].index}},
                                 cache |-> Empty, props |-> Empty], docs)} :
               /\ fs = st.fs /\ dirs = st.dirs
               /\ cache = st.cache /\ cacheProps = st.props
               /\ held = {Uuid(i) : i \in 1..k}
               /\ written = [id \in {Uuid(i) : i \in 1..k} |->
                                docs[CHOOSE i \in 1..k : Uuid(i) = id]]
    /\ last = Called("none", Undefined, Ok(Undefined))
    /\ Quiet

\* the call: the listing, then every entry's callback up to its first wait
QueryAll(variant, runtime) ==
    /\ tasks = <<>>
    /\ \E l \in {storage_list(Storage, << <<"data">>, name >>)} :
           \E order \in Perms(l.val) :
               tasks' = [variant |-> variant, runtime |-> runtime, start |-> now,
                         returned |-> FALSE,
                         entries |-> [i \in 1..Len(order) |->
                                         entered(variant, runtime, i - 1,
                                                 Str(order[i]))]]
    /\ UNCHANGED <<fs, dirs, cache, cacheProps, held, written, last, timers,
                   fired, now>>

\* the read of the i-th entry returns
ReadReturns(i) ==
    /\ tasks # <<>>
    /\ i \in DOMAIN tasks.entries
    /\ tasks.entries[i].pc = "loading"
    /\ \E rd \in {storage_read(Storage, dataPath(tasks.entries[i].id))} :
           tasks' = [tasks EXCEPT !.entries[i] =
                        IF tasks.variant = "PlexDB"
                        THEN [@ EXCEPT !.pc = "waiting", !.data = rd.val,
                                       !.due = wait(tasks.runtime * (i - 1))]
                        ELSE [@ EXCEPT !.pc = "done", !.data = rd.val,
                                       !.invokedAt = now,
                                       !.result = task(rd.val)]]
    /\ UNCHANGED <<fs, dirs, cache, cacheProps, held, written, last, timers,
                   fired, now>>

\* the timer of the i-th entry's wait fires
TimerFires(i) ==
    /\ tasks # <<>>
    /\ i \in DOMAIN tasks.entries
    /\ tasks.entries[i].pc = "waiting"
    /\ now >= tasks.entries[i].due
    /\ tasks' = [tasks EXCEPT !.entries[i] =
                     IF tasks.variant = "PlexDB"
                     THEN [@ EXCEPT !.pc = "done", !.invokedAt = now,
                                    !.result = task(tasks.entries[i].data)]
                     ELSE [@ EXCEPT !.pc = "loading", !.loadStart = now]]
    /\ UNCHANGED <<fs, dirs, cache, cacheProps, held, written, last, timers,
                   fired, now>>

\* Promise.all: every callback has returned
QueryAllReturns ==
    /\ tasks # <<>>
    /\ ~tasks.returned
    /\ \A i \in DOMAIN tasks.entries : tasks.entries[i].pc = "done"
    /\ tasks' = [tasks EXCEPT !.returned = TRUE]
    /\ last' = Called("queryAll",
                      Arr([i \in DOMAIN tasks.entries |-> tasks.entries[i].result]),
                      Ok(Undefined))
    /\ UNCHANGED <<fs, dirs, cache, cacheProps, held, written, timers, fired, now>>

Tick ==
    /\ now < MaxNow
    /\ now' = now + 1
    /\ UNCHANGED <<fs, dirs, cache, cacheProps, held, written, last, timers,
                   fired, tasks>>

QueryAllNext ==
    \/ \E variant \in Variants : \E runtime \in Runtimes : QueryAll(variant, runtime)
    \/ \E i \in 1..MaxDocs : ReadReturns(i)
    \/ \E i \in 1..MaxDocs : TimerFires(i)
    \/ QueryAllReturns
    \/ Tick

SpecQueryAll == QueryAllInit /\ [][QueryAllNext]_vars

--------------------------------------------------------------------------
\* C1: round trip.  A document passed to write and neither written nor
\* deleted since is what get returns for its id.
RoundTrip ==
    \A id \in DOMAIN written : get(Storage, id) = Ok(written[id])

\* C1's case: a document was written, and the last call since wrote or deleted
\* another document
RoundTripWitness ==
    \E id \in DOMAIN written :
        /\ last.op \in {"write", "delete"}
        /\ Prop(last.doc, "id") # id
        /\ get(Storage, id) = Ok(written[id])

\* C2: I3, at most one persisted document carries a given value for a unique
\* field.
UniqueInvariant ==
    \A key \in {k \in DOMAIN schema : schema[k].unique} :
        \A d1, d2 \in Persisted :
            (key \in DOMAIN d1.v /\ key \in DOMAIN d2.v /\ d1.v[key] = d2.v[key])
                => d1 = d2

\* C3: when a persisted document carries v for a unique indexed field, create
\* with v for that field fails with the unique-constraint error.  (The fields
\* are those the caller gives a value; create always generates id.)
UniquenessCheck ==
    \A key \in {k \in DOMAIN schema : k # "id" /\ schema[k].unique /\ schema[k].index} :
        \A input \in CreateInputs :
            (key \in DOMAIN input.v
             /\ \E d \in Persisted : Prop(d, key) = input.v[key])
                => \A rnd \in Produced(input) :
                        create(Storage, input, randomUUID, rnd).out
                            = Throw(UniqueViolation)

\* C4: after write(d), findOne on any indexed field of d with d's value returns
\* a document with d's id; after delete(d) the same query returns absent.
IndexCoherenceOfQueries ==
    \A key \in {k \in DOMAIN schema : schema[k].index} :
        (last.op \in {"write", "delete"} /\ key \in DOMAIN last.doc.v) =>
            LET q == Only(key, last.doc.v[key])
            IN  \A ord \in Orders(q) :
                    LET r == findOne(Storage, q, ord).out
                    IN  /\ r.ok
                        /\ last.op = "write" =>
                                /\ r.val # Undefined
                                /\ Prop(r.val, "id") = Prop(last.doc, "id")
                        /\ last.op = "delete" => r.val = Undefined

\* C5: I2, every persisted document's indexed fields have their index entry,
\* and the entry references the document: it is the document's id for a unique
\* field and contains it for a non-unique one.  (The fields are those with an
\* index directory; id's entry is the data file.)
IndexInvariant ==
    \A d \in Persisted :
        \A key \in {k \in DOMAIN d.v : k # "id" /\ schema[k].index} :
            LET rd == storage_read(Storage, indexPath(key, pathsafe(d.v[key]).val))
            IN  /\ rd.ok
                /\ rd.val # Undefined
                /\ IF schema[key].unique THEN rd.val = Prop(d, "id")
                   ELSE Prop(d, "id") \in Items(rd.val)

\* C6: documents written one after another with the same value of a
\* non-unique indexed field are all returned by findAll on that value: each
\* write leaves findAll returning the document just written.
Accumulation ==
    \A key \in {k \in DOMAIN schema : k # "id" /\ schema[k].index /\ ~schema[k].unique} :
        (last.op = "write" /\ key \in DOMAIN last.doc.v) =>
            LET q == Only(key, last.doc.v[key])
            IN  \A ord \in Orders(q) :
                    LET r == findAll(Storage, q, ord).out
                    IN  r.ok /\ last.doc \in Items(r.val)

\* C9: get, findOne and findAll never raise: a missing document is absent.
AbsentNotError ==
    /\ \A id \in Uuids : get(Storage, id).ok
    /\ \A q \in Queries : \A ord \in Orders(q) :
            /\ findOne(Storage, q, ord).out.ok
            /\ findAll(Storage, q, ord).out.ok

\* d is a persisted document that equals q on every key of q
Sound(q, d) ==
    /\ d \in Persisted
    /\ \A k \in DOMAIN q.v : StrictEq(q.v[k], Prop(d, k))

\* C10: every document findOne or findAll returns is persisted and equals the
\* query on every queried field.
QuerySoundness ==
    \A q \in Queries : \A ord \in Orders(q) :
        LET one == findOne(Storage, q, ord).out
            all == findAll(Storage, q, ord).out
        IN  /\ (one.ok /\ one.val # Undefined) => Sound(q, one.val)
            /\ all.ok => \A d \in Items(all.val) : Sound(q, d)

\* C10's case: a query on an indexed field and on one no index is probed for
\* returns a document, and leaves out another the index probe found
QuerySoundnessWitness ==
    \E q \in Queries : \E ord \in Orders(q) :
        LET all == findAll(Storage, q, ord)
            cs == candidatesFrom(Storage, q, ord, <<>>)
        IN  /\ Probing(q) # {} /\ Probing(q) # DOMAIN q.v
            /\ all.out.ok /\ Len(all.out.val.v) = 1
            /\ cs.ok /\ Len(cs.val) = 2

\* the canonical resolution of a logical path against the root
Resolved(path) == normalize(join(root, path))

\* C7: path confinement.  A storage call on a logical path whose canonical
\* resolution is not the root or below it fails with the path-escape error
\* and leaves every file and directory as it was.
PathConfinement ==
    (last.op # "none" /\ ~IsUnder(Resolved(last.doc.v), root)) =>
        /\ last.err = PathEscape
        /\ fs = PathInitFs
        /\ dirs = PathInitDirs

\* the ids of the documents a query on st returns, whatever the order of its
\* index reads
Found(st, q) ==
    UNION {{Prop(d, "id") : d \in
                (LET one == findOne(st, q, ord).out
                     all == findAll(st, q, ord).out
                 IN  (IF one.ok /\ one.val # Undefined THEN {one.val} ELSE {})
                     \cup (IF all.ok THEN Items(all.val) ELSE {}))} :
           ord \in Orders(q)}

\* C8: create never persists.  A call of create, whether it returns a document
\* or fails, leaves the files and directories under the root as they were; the
\* document it returns is found by no query; and get returns a document only
\* for an id passed to write and not deleted since.
CreateNeverPersists ==
    [][ /\ (\E input \in CreateInputs : \E rnd \in Produced(input) :
                Create(input, rnd))
            => /\ fs' = fs /\ dirs' = dirs
               /\ \A q \in Queries :
                    randomUUID \notin
                        Found([Storage EXCEPT !.fs = fs', !.dirs = dirs'], q)
        /\ \A id \in Uuids :
                get([Storage EXCEPT !.fs = fs', !.dirs = dirs'], id).val # Undefined
                    => id \in DOMAIN written'
      ]_vars

\* C8's case: create has just returned a document, or failed on a missing
\* field, or on a unique value, while a document was persisted
CreateReturnedWitness ==
    /\ last.op = "create" /\ last.err = ""
    /\ Persisted # {}
    /\ get(Storage, Prop(last.doc, "id")).val = Undefined


\* C11: close releases both background activities.  Once close has been
\* called neither the autosave callback nor the cacheClear callback runs
\* again, and close has saved the metadata.
CloseReleasesTimers ==
    /\ \A i, j \in DOMAIN fired :
            (i < j /\ fired[i] = "close") => fired[j] \notin {"autosave", "cacheClear"}
    /\ last.op = "close" =>
            /\ last.err = ""
            /\ storage_read(Storage, << <<".plexmeta">> >>) = Ok(meta)


\* the values the cache object holds: its Map entries and its properties
Resident == DOMAIN cache \cup DOMAIN cacheProps

\* C12: bounded cache.  Whenever the eviction check has just run, the cache
\* holds fewer values than the mark, however many paths were written.
BoundedCache ==
    last.op = "cacheClear" => Cardinality(Resident) < HighWater

\* C17: write-through cache.  After storage.write(p, v) the cache has an entry
\* for p with value v and a read of p returns v whatever the files hold; after
\* storage.remove(p) the cache has no entry for p and a read returns absent.
WriteThroughCache ==
    /\ (last.op = "storage.write" /\ last.err = "") =>
            /\ cacheHas(Storage, last.doc.v)
            /\ cache[last.doc.v] = last.doc.data
            /\ storage_read([Storage EXCEPT !.fs = Empty], last.doc.v)
                    = Ok(last.doc.data)
    /\ (last.op = "storage.remove" /\ last.err = "") =>
            /\ ~cacheHas(Storage, last.doc.v)
            /\ storage_read(Storage, last.doc.v) = Ok(Undefined)


\* C13: query notification.  Every findOne and every findAll that completes
\* emits exactly one "query" event, carrying the query and the result set
\* (empty when nothing matched).
QueryNotification ==
    \A q \in Queries : \A ord \in Orders(q) :
        /\ \A one \in {findOne(Storage, q, ord)} :
                one.out.ok =>
                    one.events =
                        <<Event("query",
                                <<q, Arr(IF one.out.val = Undefined THEN <<>>
                                         ELSE <<one.out.val>>)>>)>>
        /\ \A all \in {findAll(Storage, q, ord)} :
                all.out.ok => all.events = <<Event("query", <<q, all.out.val>>)>>

\* the index entry of a value of a field, as the store holds it
IndexEntry(key, val) == storage_read(Storage, indexPath(key, pathsafe(val).val)).val

\* the tasks whose write has begun with the value val in the field key
Sharing(key, val) == {t \in Begun : Prop(tasks[t].doc, key) = val}

\* C14: two create calls with the same value of a unique field can both pass
\* the uniqueness check before either document is written; whenever that has
\* happened and both writes have begun, neither check ran after the other
\* task's write, both writes succeeded, both documents are persisted under
\* distinct ids with the same unique value, and the unique index entry holds
\* the id of the task that wrote it last and nothing else.
UniqueRace ==
    \A val \in FieldValues["u"] :
        \A t1 \in Sharing("u", val) : \A t2 \in Sharing("u", val) \ {t1} :
            /\ t2 \notin tasks[t1].checkedAfter
            /\ tasks[t1].ok
            /\ Prop(tasks[t1].doc, "id") # Prop(tasks[t2].doc, "id")
            /\ get(Storage, Prop(tasks[t1].doc, "id")).val = tasks[t1].doc
            /\ \E w \in Sharing("u", val) :
                   /\ Sharing("u", val) \ {w} \subseteq tasks[w].begunAfter
                   /\ IndexEntry("u", val) = Prop(tasks[w].doc, "id")

UniqueRaceWitness ==
    \E t1 \in Ended, t2 \in Ended :
        /\ t1 # t2
        /\ Prop(tasks[t1].doc, "u") = Prop(tasks[t2].doc, "u")
        /\ t1 \in tasks[t2].begunAfter
        /\ tasks[t1].checkedAfter = {} /\ tasks[t2].checkedAfter = {}
        /\ tasks[t1].ok /\ tasks[t2].ok
        /\ get(Storage, Prop(tasks[t1].doc, "id")).val = tasks[t1].doc
        /\ get(Storage, Prop(tasks[t2].doc, "id")).val = tasks[t2].doc
        /\ IndexEntry("u", Prop(tasks[t1].doc, "u")) = Prop(tasks[t2].doc, "id")

\* the two tasks' writes interleaved: each read the id sequence before the
\* other wrote it back
Interleaved(t1, t2) ==
    t1 \notin tasks[t2].endedBefore /\ t2 \notin tasks[t1].endedBefore

\* what findAll returns for the value val of the non-unique indexed field n
AllWith(val) ==
    UNION {Items(findAll(Storage, Only("n", val), ord).out.val) :
               ord \in Orders(Only("n", val))}

\* C15: lost update on a non-unique index.  Of two completed writes of
\* distinct documents with the same value of the field n: when they
\* interleaved between the read of the id sequence and its write-back, the
\* index entry does not hold both ids and findAll on the value misses one of
\* the two documents, both persisted; when no two writes with that value
\* interleaved, the entry holds both ids and findAll returns both documents.
LostUpdate ==
    \A val \in FieldValues["n"] :
        \A t1 \in Sharing("n", val) \cap Ended :
            \A t2 \in (Sharing("n", val) \cap Ended) \ {t1} :
                LET d1 == tasks[t1].doc
                    d2 == tasks[t2].doc
                    ids == Items(IndexEntry("n", val))
                IN  /\ get(Storage, Prop(d1, "id")).val = d1
                    /\ Interleaved(t1, t2) =>
                           /\ ~({Prop(d1, "id"), Prop(d2, "id")} \subseteq ids)
                           /\ ~({d1, d2} \subseteq AllWith(val))
                    /\ (\A a \in Sharing("n", val) :
                            \A b \in Sharing("n", val) \ {a} : ~Interleaved(a, b)) =>
                           /\ {Prop(d1, "id"), Prop(d2, "id")} \subseteq ids
                           /\ {d1, d2} \subseteq AllWith(val)

LostUpdateWitness ==
    \E t1 \in Ended, t2 \in Ended :
        /\ t1 # t2
        /\ Prop(tasks[t1].doc, "n") = Prop(tasks[t2].doc, "n")
        /\ Prop(tasks[t1].doc, "u") # Prop(tasks[t2].doc, "u")
        /\ Interleaved(t1, t2)
        /\ IndexEntry("n", Prop(tasks[t1].doc, "n")) = Arr(<<Prop(tasks[t2].doc, "id")>>)
        /\ get(Storage, Prop(tasks[t1].doc, "id")).val = tasks[t1].doc
        /\ tasks[t1].doc \notin AllWith(Prop(tasks[t1].doc, "n"))

\* C16: delete granularity.  A call of delete(d) leaves no index entry at the
\* encoded value of any indexed field of d, whatever other ids a non-unique
\* field's entry held, and leaves the data entry of every other document as
\* it was.
DeleteGranularity ==
    [][ (last'.op = "delete" /\ Delete(last'.doc)) =>
            LET d == last'.doc
                after == [Storage EXCEPT !.fs = fs', !.dirs = dirs']
            IN  /\ \A key \in {k \in DOMAIN d.v \cap DOMAIN schema : schema[k].index} :
                       LET ip == indexPath(key, pathsafe(d.v[key]).val)
                       IN  /\ ~storage_exists(after, ip).val
                           /\ storage_read(after, ip).val = Undefined
                /\ \A id \in Uuids \ {Prop(d, "id")} :
                       get(after, id) = get(Storage, id)
      ]_vars

\* C16's case: a document was deleted while another document with the same
\* value of the non-unique field n is persisted; the value has no index entry
DeleteGranularityWitness ==
    /\ last.op = "delete" /\ last.err = ""
    /\ \E id \in DOMAIN written :
           /\ id # Prop(last.doc, "id")
           /\ get(Storage, id) = Ok(written[id])
           /\ Prop(written[id], "n") = Prop(last.doc, "n")
           /\ IndexEntry("n", Prop(last.doc, "n")) = Undefined

\* C18: queryAll pacing.  In a call of queryAll, the load of every listed
\* document starts at the start of the call, waiting for no delay; the task
\* of the i-th listed document (i from 0) is invoked no earlier than
\* runtime * i after the start; and the call returns the task results in the
\* order of the listing.
QueryAllPacing ==
    tasks # <<>> =>
        /\ \A i \in DOMAIN tasks.entries :
               LET e == tasks.entries[i]
               IN  /\ e.loadStart = tasks.start
                   /\ e.invokedAt # -1 =>
                          e.invokedAt >= tasks.start + tasks.runtime * (i - 1)
        /\ tasks.returned =>
               last.doc = Arr([i \in DOMAIN tasks.entries |->
                                  task(get(Storage, tasks.entries[i].id).val)])

\* C19: required-field resolution in create.  A required field other than id
\* that the input holds, with whatever value, is not reported missing and has
\* its input value in the document returned; one the input does not hold has
\* what its default produced; and create fails with the missing-field error
\* only when the input lacks a required field that has no default.
RequiredResolution ==
    tasks # <<>> =>
        LET input == tasks.input
            out == tasks.out
            req == {k \in DOMAIN schema : k # "id" /\ schema[k].required}
        IN  /\ \A key \in req \cap DOMAIN input.v :
                   out.ok => out.val.v[key] = input.v[key]
            /\ \A key \in req \ DOMAIN input.v :
                   (out.ok /\ schema[key].default # "none") =>
                       out.val.v[key] = tasks.rnd
            /\ out.err = MissingRequired =>
                   \E key \in req \ DOMAIN input.v : schema[key].default = "none"

\* C20: lookup by id through the query interface.  For every document
\* written and not deleted since, findOne with the query {id: d.id} returns
\* the document, as get(d.id) does.
LookupById ==
    \A id \in DOMAIN written :
        /\ get(Storage, id) = Ok(written[id])
        /\ findOne(Storage, Only("id", id), <<>>).out = get(Storage, id)

\* the logical paths of the index entries the store holds
IndexEntries ==
    {p \in {SubSeq(f, Len(root) + 1, Len(f)) : f \in DOMAIN fs} :
        Len(p) = 4 /\ p[1] = <<"index">> /\ p[2] = name}

\* the ids an index entry holds: one for a unique field, a sequence otherwise
IdsOf(entry) ==
    IF entry.t = "array" THEN Items(entry)
    ELSE IF entry = Undefined THEN {} ELSE {entry}

\* C21: no dangling index references.  After any sequence of writes and
\* deletes, every id held by an index entry has a data entry, and the
\* document's value of the entry's field encodes to the entry's key.
NoDanglingReference ==
    \A p \in IndexEntries :
        \A id \in IdsOf(storage_read(Storage, p).val) :
            LET d == get(Storage, id).val
            IN  /\ d # Undefined
                /\ pathsafe(Prop(d, p[3][1])).val = p[4]

\* no item occurs twice in the sequence
NoDuplicates(arr) ==
    \A i, j \in DOMAIN arr.v : arr.v[i] = arr.v[j] => i = j

\* C22: re-write is idempotent for query results.  When write(d) has just
\* returned and the same d is written again, the id sequence of a non-unique
\* field may hold d.id once more, but for every query findAll returns every
\* document at most once and the same set of documents as before the
\* re-write.
RewriteIdempotent ==
    [][ (last.op = "write" /\ last.err = "" /\ last' = last /\ Write(last.doc)) =>
            LET after == [fs |-> fs', dirs |-> dirs',
                          cache |-> cache', props |-> cacheProps']
            IN  \A q \in Queries : \A ord \in Orders(q) :
                    LET a == findAll(Storage, q, ord).out
                        b == findAll(after, q, ord).out
                    IN  /\ a.ok = b.ok
                        /\ b.ok => /\ NoDuplicates(b.val)
                                   /\ Items(b.val) = Items(a.val)
      ]_vars

\* C22's case: the document just written has its id twice in the id sequence
\* of its value of n, and findAll on that value returns it once
RewriteIdempotentWitness ==
    /\ last.op = "write" /\ last.err = ""
    /\ LET entry == IndexEntry("n", Prop(last.doc, "n"))
           r == findAll(Storage, Only("n", Prop(last.doc, "n")), <<"n">>).out
       IN  /\ entry.t = "array"
           /\ \E i, j \in DOMAIN entry.v :
                  i # j /\ entry.v[i] = Prop(last.doc, "id")
                        /\ entry.v[j] = Prop(last.doc, "id")
           /\ r.ok
           /\ Cardinality({i \in DOMAIN r.val.v : r.val.v[i] = last.doc}) = 1

====
